---- MODULE Spec2Model ----
(***************************************************************************)
(* HidrawButtonMonitor (src/main.py) and the Plugin methods that expose    *)
(* it, as a state machine.  The caller (the plugin's event loop) and the   *)
(* polling threads interleave at statement granularity; the critical       *)
(* section of _process_packet is one step taken while the lock is held.    *)
(* Plugin.take_screenshot, Plugin.set_setting with ProviderManager, and    *)
(* FreeTranslateProvider.translate_batch have their own variables and      *)
(* specifications.                                                         *)
(***************************************************************************)
EXTENDS Integers, Sequences, FiniteSets, TLC

\* ------------------------------------------------------------------ bounds
\* polling threads start() creates
MaxThreads == 2
\* file descriptors the process may hold open for the device at once
MaxFds == 2
\* calls of time.time() by _process_packet (packets that change the masks)
MaxClock == 1
\* the same, where the device never fails and one thread polls
MaxQueueClock == 3
\* the same, where the queue is filled past its capacity
MaxOverflowClock == 105
\* error_count is not driven past this value
MaxErrorCount == 11
\* the same, where only a race between threads makes a read fail
MaxRaceErrors == 2
\* largest max_events a consumer passes to get_events
MaxDrain == 2
\* coroutines of the event loop that may call take_screenshot
MaxCoros == 3
\* highest hidraw node number an arrangement of nodes uses
MaxNode == 2
\* texts in one translate_batch call
MaxTexts == 2

\* ------------------------------------------------------- program constants
None == -1
QueueMaxSize == 100
max_errors == 10
MinPacketLen == 16
HidrawRange == 10

Caller == 0
Tids == 1..MaxThreads
Agents == {Caller} \cup Tids
Fds == 1..MaxFds
Coros == 1..MaxCoros

\* ------------------------------------------------------------ button masks
BUTTONS_L ==
  [ R2 |-> 1, L2 |-> 2, R1 |-> 4, L1 |-> 8, Y |-> 16, B |-> 32, X |-> 64,
    A |-> 128, DPAD_UP |-> 256, DPAD_RIGHT |-> 512, DPAD_LEFT |-> 1024,
    DPAD_DOWN |-> 2048, SELECT |-> 4096, STEAM |-> 8192, START |-> 16384,
    L5 |-> 32768, R5 |-> 65536, LEFT_PAD_TOUCH |-> 131072,
    RIGHT_PAD_TOUCH |-> 262144, LEFT_PAD_CLICK |-> 524288,
    RIGHT_PAD_CLICK |-> 1048576, L3 |-> 4194304, R3 |-> 67108864 ]

BUTTONS_H ==
  [ L4 |-> 512, R4 |-> 1024, QAM |-> 262144 ]

\* a & b on non-negative integers
RECURSIVE BitAnd(_, _)
BitAnd(a, b) ==
  IF a = 0 \/ b = 0 THEN 0
  ELSE (a % 2) * (b % 2) + 2 * BitAnd(a \div 2, b \div 2)

\* struct.unpack('<I', data[off:off+4])[0], off counted from 0
UnpackLE(data, off) ==
  data[off + 1] + 256 * data[off + 2] + 65536 * data[off + 3]
    + 16777216 * data[off + 4]

ButtonsL(data) == UnpackLE(data, 8)
ButtonsH(data) == UnpackLE(data, 12)

\* the set new_buttons built by the two loops of _process_packet
DecodeMasks(l, h) ==
  {n \in DOMAIN BUTTONS_L : BitAnd(l, BUTTONS_L[n]) # 0}
    \cup {n \in DOMAIN BUTTONS_H : BitAnd(h, BUTTONS_H[n]) # 0}

NewButtons(data) == DecodeMasks(ButtonsL(data), ButtonsH(data))

\* ------------------------------------------------------------------ inputs
\* a report of n bytes whose bytes 8..11 hold l and bytes 12..15 hold h
MkPacket(l, h, n) ==
  [i \in 1..n |->
     IF i \in 9..12 THEN (l \div (256 ^ (i - 9))) % 256
     ELSE IF i \in 13..16 THEN (h \div (256 ^ (i - 13))) % 256
     ELSE 0]

PktNone == MkPacket(0, 0, 16)
PktA == MkPacket(128, 0, 16)
PktR2 == MkPacket(1, 0, 16)
PktAStart == MkPacket(16512, 0, 16)
\* A with the unmapped bit 0x200000 set as well
PktAUnmapped == MkPacket(2097280, 0, 16)
PktL4 == MkPacket(0, 512, 16)
PktShort == MkPacket(128, 0, 15)


\* what find_device sees: the hidraw nodes that exist, those whose uevent
\* names the controller, those whose symlink holds ':1.2/', those that
\* deliver data within the readiness wait, those os.open fails on, those
\* os.read fails on
Env(ex, ids, l12, dat) ==
  [exists |-> ex, ids |-> ids, link12 |-> l12, data |-> dat,
   noopen |-> {}, readerr |-> {}]

Envs ==
  { Env({}, {}, {}, {}),
    Env({0, 1, 2}, {0, 1, 2}, {2}, {}),
    Env({1, 2}, {1, 2}, {}, {}) }

\* find_device's view of a Steam Deck: three interfaces, the gamepad at 1.2
EnvDeck == Env({0, 1, 2}, {0, 1, 2}, {2}, {})

\* What the surroundings may do under a specification: the reports the device
\* delivers, how often they may change, whether a read may fail, how far
\* error_count is driven, what find_device sees, whether os.open may fail.
CfgFull ==
  [pkts |-> {PktNone, PktA, PktShort}, maxClock |-> MaxClock, faults |-> TRUE,
   maxErrors |-> MaxErrorCount, envs |-> Envs, openFails |-> TRUE,
   slots |-> {1}, tracked |-> FALSE]

CfgQueue ==
  [pkts |-> {PktNone, PktA, PktR2, PktAUnmapped, PktShort},
   maxClock |-> MaxQueueClock, faults |-> FALSE, maxErrors |-> MaxErrorCount,
   envs |-> {EnvDeck}, openFails |-> FALSE, slots |-> {1}, tracked |-> FALSE]

CfgThreads ==
  [pkts |-> {PktNone, PktA, PktShort}, maxClock |-> MaxClock, faults |-> FALSE,
   maxErrors |-> MaxRaceErrors, envs |-> {EnvDeck}, openFails |-> FALSE,
   slots |-> Tids, tracked |-> FALSE]

CfgCoordinator ==
  [pkts |-> {PktNone, PktAStart}, maxClock |-> MaxClock, faults |-> FALSE,
   maxErrors |-> MaxRaceErrors, envs |-> {EnvDeck}, openFails |-> FALSE,
   slots |-> {1}, tracked |-> FALSE]

CfgStop ==
  [pkts |-> {PktShort}, maxClock |-> MaxClock, faults |-> FALSE,
   maxErrors |-> MaxErrorCount, envs |-> {EnvDeck}, openFails |-> FALSE,
   slots |-> Tids, tracked |-> FALSE]

\* the controller moved to another hidraw node
EnvMoved == Env({0, 1}, {0, 1}, {1}, {})

\* one thread on a device that fails to be read and to open while its nodes
\* change, until they settle
CfgReconnect ==
  [pkts |-> {PktShort}, maxClock |-> MaxClock, faults |-> TRUE,
   maxErrors |-> MaxErrorCount, envs |-> {EnvDeck, EnvMoved},
   openFails |-> TRUE, slots |-> {1}, tracked |-> TRUE]

CfgOverflow ==
  [pkts |-> {PktNone, PktA}, maxClock |-> MaxOverflowClock, faults |-> FALSE,
   maxErrors |-> MaxErrorCount, envs |-> {EnvDeck}, openFails |-> FALSE, slots |-> {1}, tracked |-> FALSE]

\* os.close(fd) inside try/except: closing a closed descriptor changes nothing
OsClose(fds, fd) == fds \ {fd}

SetMin(S) == CHOOSE x \in S : \A y \in S : x <= y
SetMax(S) == CHOOSE x \in S : \A y \in S : x >= y

Candidates(env) == {i \in 0..(HidrawRange - 1) : i \in env.exists /\ i \in env.ids}

\* what one node may be: absent, or present with or without the ids in its
\* uevent, with or without ':1.2/' in its symlink, and failing to open, silent
\* within the wait, delivering data, or readable with a failing read
NodeKinds ==
  {[ex |-> FALSE, id |-> FALSE, link |-> FALSE, probe |-> "noopen"]} \cup
  [ex : {TRUE}, id : BOOLEAN, link : BOOLEAN,
   probe : {"noopen", "nodata", "data", "readerr"}]

\* every arrangement of the nodes 0..MaxNode
FindEnvs ==
  { [exists |-> {i \in 0..MaxNode : f[i].ex},
     ids |-> {i \in 0..MaxNode : f[i].ex /\ f[i].id},
     link12 |-> {i \in 0..MaxNode : f[i].ex /\ f[i].link},
     data |-> {i \in 0..MaxNode : f[i].ex /\ f[i].probe \in {"data", "readerr"}},
     noopen |-> {i \in 0..MaxNode : f[i].ex /\ f[i].probe = "noopen"},
     readerr |-> {i \in 0..MaxNode : f[i].ex /\ f[i].probe = "readerr"}] :
      f \in [0..MaxNode -> NodeKinds] }

\* candidates = [(i, path) for i in range(10) if the node exists and its
\* uevent holds both ids], in ascending order
RECURSIVE CandidateList(_, _)
CandidateList(i, env) ==
  IF i >= HidrawRange THEN << >>
  ELSE (IF i \in env.exists /\ i \in env.ids THEN << i >> ELSE << >>)
         \o CandidateList(i + 1, env)

\* the first candidate, in list order, whose symlink holds ':1.2/'
RECURSIVE ByLink(_, _)
ByLink(c, env) ==
  IF c = << >> THEN None
  ELSE IF Head(c) \in env.link12 THEN Head(c)
  ELSE ByLink(Tail(c), env)

\* the probing loop: the first candidate, in list order, that can be opened,
\* is readable within the wait and is read without an exception; with it the
\* probing descriptors still open when the loop is left
RECURSIVE ByData(_, _)
ByData(c, env) ==
  IF c = << >> THEN [path |-> None, open |-> {}]
  ELSE LET i == Head(c)
           rest == ByData(Tail(c), env)
       IN  IF i \in env.noopen THEN rest
           ELSE IF i \in env.data /\ i \notin env.readerr
             THEN [path |-> i, open |-> OsClose({i}, i)]
           ELSE [path |-> rest.path, open |-> OsClose({i}, i) \cup rest.open]

\* a discovery whose last resort is the first candidate
FindDeviceLowest(env) ==
  LET c == CandidateList(0, env)
      d == ByData(c, env)
  IN  IF c = << >> THEN [path |-> None, open |-> {}]
      ELSE IF ByLink(c, env) # None THEN [path |-> ByLink(c, env), open |-> {}]
      ELSE IF d.path # None THEN d
      ELSE [path |-> c[1], open |-> d.open]

\* find_device: the node it returns (None: no path) and the probing
\* descriptors it leaves open
FindDevice(env) ==
  LET c == CandidateList(0, env)
      d == ByData(c, env)
  IN  IF c = << >> THEN [path |-> None, open |-> {}]
      ELSE IF ByLink(c, env) # None THEN [path |-> ByLink(c, env), open |-> {}]
      ELSE IF d.path # None THEN d
      ELSE [path |-> c[Len(c)], open |-> d.open]

\* the hidraw node number find_device returns, or None
find_device(env) == FindDevice(env).path

\* ------------------------------------------------------------------- state
VARIABLES
  device_fd, device_path, running, thread, event_queue, current_buttons,
  last_buttons_l, last_buttons_h, error_count, initialized, lock,
  pc, data, timestamp, open_fds, clock, ret, produced,
  evdev_running, evdev_buttons,
  \* errors raised in the loop since device_fd was last assigned by os.open
  handle_errors,
  \* the hidraw nodes as they are now, and whether they have stopped changing
  hidraw, stable,
  \* take_screenshot: the module's guard, each coroutine's await point, its
  \* outcome, the coroutines whose capture subprocess is alive
  processing_lock, shot_pc, shot_ret, proc,
  \* Plugin and ProviderManager fields set_setting writes, the saved settings
  ocr_provider, use_free_providers, google_vision_api_key, rapidocr_confidence,
  ocr_provider_preference, pm_use_free_providers, pm_google_api_key,
  pm_rapidocr_confidence, saved,
  \* translate_batch: its input, the state of each future, the order in which
  \* the futures completed, the results list, the returned list
  texts, futures, completed, results, batch_ret

vars ==
  << device_fd, device_path, running, thread, event_queue, current_buttons,
     last_buttons_l, last_buttons_h, error_count, initialized, lock,
     pc, data, timestamp, open_fds, clock, ret, produced,
     evdev_running, evdev_buttons, handle_errors, hidraw, stable,
     processing_lock, shot_pc, shot_ret, proc,
     ocr_provider, use_free_providers, google_vision_api_key,
     rapidocr_confidence, ocr_provider_preference, pm_use_free_providers,
     pm_google_api_key, pm_rapidocr_confidence, saved,
     texts, futures, completed, results, batch_ret >>

evdevVars == << evdev_running, evdev_buttons >>

worldVars == << hidraw, stable >>

screenshotVars == << processing_lock, shot_pc, shot_ret, proc >>

settingVars ==
  << ocr_provider, use_free_providers, google_vision_api_key,
     rapidocr_confidence, ocr_provider_preference, pm_use_free_providers,
     pm_google_api_key, pm_rapidocr_confidence, saved >>

batchVars == << texts, futures, completed, results, batch_ret >>

pluginVars == << screenshotVars, settingVars, batchVars >>

otherVars == << worldVars, pluginVars >>

monitorVars ==
  << device_fd, device_path, running, thread, event_queue, current_buttons,
     last_buttons_l, last_buttons_h, error_count, initialized >>

InitMonitor ==
  /\ device_fd = None
  /\ device_path = None
  /\ running = FALSE
  /\ thread = None
  /\ event_queue = << >>
  /\ current_buttons = {}
  /\ last_buttons_l = 0
  /\ last_buttons_h = 0
  /\ error_count = 0
  /\ initialized = FALSE
  /\ lock = None
  /\ pc = [a \in Agents |-> IF a = Caller THEN "idle" ELSE "none"]
  /\ data = [t \in Tids |-> << >>]
  /\ timestamp = [t \in Tids |-> 0]
  /\ open_fds = {}
  /\ clock = 0
  /\ ret = [op |-> "none"]
  /\ produced = << >>
  /\ evdev_running = FALSE
  /\ evdev_buttons = {}
  /\ handle_errors = 0

\* the settings set_setting is called with here
SettingKeys ==
  {"ocr_provider", "use_free_providers", "google_api_key",
   "google_vision_api_key", "rapidocr_confidence", "target_language"}

\* no take_screenshot call has been made
InitScreenshot ==
  /\ processing_lock = FALSE
  /\ shot_pc = [c \in Coros |-> "idle"]
  /\ shot_ret = [c \in Coros |-> "none"]
  /\ proc = {}

\* the class defaults of Plugin, the ProviderManager _main configured from
\* them, no setting saved through set_setting yet
InitSettings ==
  /\ ocr_provider = "rapidocr"
  /\ use_free_providers = TRUE
  /\ google_vision_api_key = ""
  /\ rapidocr_confidence = "0.5"
  /\ ocr_provider_preference = "rapidocr"
  /\ pm_use_free_providers = TRUE
  /\ pm_google_api_key = ""
  /\ pm_rapidocr_confidence = "0.5"
  /\ saved = [k \in SettingKeys |->
                IF k = "ocr_provider" THEN "rapidocr" ELSE "not_set"]

\* no translate_batch call has been made
InitBatch ==
  /\ texts = << >>
  /\ futures = << >>
  /\ completed = << >>
  /\ results = << >>
  /\ batch_ret = [op |-> "none"]

Init ==
  /\ InitMonitor
  /\ hidraw = EnvDeck
  /\ stable = FALSE
  /\ InitScreenshot
  /\ InitSettings
  /\ InitBatch

Goto(a, label) == pc' = [pc EXCEPT ![a] = label]

\* ------------------------------------------------------- initialize_device
\* initialize_device returns False: start() returns False, the loop sleeps
\* reconnect_delay and continues
InitializeFailed(a) ==
  IF a = Caller
    THEN /\ Goto(a, "idle")
         /\ ret' = [op |-> "start", val |-> FALSE,
                    msg |-> "Failed to initialize device"]
    ELSE /\ Goto(a, "while")
         /\ ret' = ret

\* the nodes a discovery may see: the nodes as they are where the
\* specification follows them, else any of cfg.envs
Seen(cfg) == IF cfg.tracked THEN {hidraw} ELSE cfg.envs

\* os.open(self.device_path) finds its node
Openable(cfg) ==
  cfg.tracked => device_path \in hidraw.exists \ hidraw.noopen

InitializeFind(a, cfg) ==
  /\ pc[a] = "find"
  /\ IF device_path # None
       THEN /\ Goto(a, "open")
            /\ UNCHANGED << device_path, ret >>
       ELSE \E env \in Seen(cfg) :
              /\ device_path' = find_device(env)
              /\ IF device_path' = None
                   THEN InitializeFailed(a)
                   ELSE Goto(a, "open") /\ ret' = ret
  /\ UNCHANGED << device_fd, running, thread, event_queue, current_buttons,
                  last_buttons_l, last_buttons_h, error_count, initialized,
                  lock, data, timestamp, open_fds, clock, produced, evdevVars, handle_errors, otherVars >>

\* the except branch of initialize_device
InitializeExcept(a) ==
  /\ IF device_fd # None
       THEN /\ open_fds' = OsClose(open_fds, device_fd)
            /\ device_fd' = None
       ELSE UNCHANGED << open_fds, device_fd >>
  /\ InitializeFailed(a)

\* self.device_fd = os.open(self.device_path, os.O_RDWR): the lowest free
\* descriptor, or an exception (no such path, no free descriptor, a failure
\* of the device where cfg.openFails allows one and the nodes have not settled)
InitializeOpen(a, cfg) ==
  /\ pc[a] = "open"
  /\ \E ok \in {TRUE} \cup (IF cfg.openFails /\ ~stable THEN {FALSE} ELSE {}) :
       IF ok /\ device_path # None /\ Openable(cfg) /\ Fds \ open_fds # {}
         THEN /\ device_fd' = SetMin(Fds \ open_fds)
              /\ open_fds' = open_fds \cup {device_fd'}
              /\ handle_errors' = 0
              /\ Goto(a, "inited")
              /\ ret' = ret
         ELSE InitializeExcept(a) /\ UNCHANGED handle_errors
  /\ UNCHANGED << device_path, running, thread, event_queue, current_buttons,
                  last_buttons_l, last_buttons_h, error_count, initialized,
                  lock, data, timestamp, clock, produced, evdevVars, otherVars >>

\* both feature reports were attempted; their result is only logged
InitializeDone(a) ==
  /\ pc[a] = "inited"
  /\ initialized' = TRUE
  /\ Goto(a, IF a = Caller THEN "start_run" ELSE "select")
  /\ UNCHANGED << device_fd, device_path, running, thread, event_queue,
                  current_buttons, last_buttons_l, last_buttons_h, error_count,
                  lock, data, timestamp, open_fds, clock, ret, produced, evdevVars, handle_errors, otherVars >>

\* ------------------------------------------------------------ _monitor_loop
\* while self.running
LoopWhile(t) ==
  /\ pc[t] = "while"
  /\ Goto(t, IF running THEN "check" ELSE "done")
  /\ UNCHANGED << monitorVars, lock, data, timestamp, open_fds, clock, ret,
                  produced, evdevVars, handle_errors, otherVars >>

\* if not self.initialized or self.device_fd is None
LoopCheck(t) ==
  /\ pc[t] = "check"
  /\ Goto(t, IF ~initialized \/ device_fd = None THEN "find" ELSE "select")
  /\ UNCHANGED << monitorVars, lock, data, timestamp, open_fds, clock, ret,
                  produced, evdevVars, handle_errors, otherVars >>

\* self.error_count += 1; the counter is only ever compared with max_errors,
\* so counts from cfg.maxErrors on are kept as one value
Counted(n, cfg) == IF n < cfg.maxErrors THEN n + 1 ELSE n

\* the OSError came from a select or read on device_fd
HandleError(cfg) == handle_errors' = Counted(handle_errors, cfg)

\* an OSError nothing catches: the thread ends
RaiseOSErrorFatal(t, cfg) ==
  /\ error_count' = Counted(error_count, cfg)
  /\ Goto(t, "done")

\* except OSError: count the error; at max_errors go on to _close_device
RaiseOSError(t, cfg) ==
  /\ error_count' = Counted(error_count, cfg)
  /\ Goto(t, IF error_count' >= max_errors THEN "close" ELSE "while")

\* except Exception: count the error, sleep 0.1 s, next iteration
RaiseOther(t, cfg) ==
  /\ error_count' = Counted(error_count, cfg)
  /\ Goto(t, "while")

\* select.select([self.device_fd], [], [], 0.1)
LoopSelect(t, cfg) ==
  /\ pc[t] = "select"
  /\ IF device_fd = None THEN RaiseOther(t, cfg) /\ UNCHANGED handle_errors
     ELSE IF device_fd \notin open_fds THEN RaiseOSError(t, cfg) /\ HandleError(cfg)
     ELSE /\ \/ Goto(t, "while")
             \/ Goto(t, "read")
          /\ UNCHANGED << error_count, handle_errors >>
  /\ UNCHANGED << device_fd, device_path, running, thread, event_queue,
                  current_buttons, last_buttons_l, last_buttons_h, initialized,
                  lock, data, timestamp, open_fds, clock, ret, produced,
                  evdevVars, otherVars >>

\* the packet repeats the masks the monitor saw last
Unchanged(p) ==
  ButtonsL(p) = last_buttons_l /\ ButtonsH(p) = last_buttons_h

\* an os.read that raised delivered nothing
NoData(t) == data' = [data EXCEPT ![t] = << >>]

\* a loop that counts a packet shorter than MinPacketLen as an error
ReadPacketCountsShort(t, p) ==
  /\ data' = [data EXCEPT ![t] = p]
  /\ Goto(t, IF Len(p) >= MinPacketLen THEN "cmp" ELSE "while")
  /\ error_count' = IF Len(p) < MinPacketLen /\ error_count < max_errors
                      THEN error_count + 1 ELSE error_count

\* the packet a successful os.read delivers
ReadPacket(t, p) ==
  /\ data' = [data EXCEPT ![t] = p]
  /\ Goto(t, IF Len(p) >= MinPacketLen THEN "cmp" ELSE "while")
  /\ UNCHANGED error_count

\* data = os.read(self.device_fd, self.PACKET_SIZE); if len(data) >= 16.
\* The read raises OSError where cfg.faults allows the device to fail.
LoopRead(t, cfg) ==
  /\ pc[t] = "read"
  /\ IF device_fd = None
       THEN RaiseOther(t, cfg) /\ NoData(t) /\ UNCHANGED handle_errors
     ELSE IF device_fd \notin open_fds
       THEN RaiseOSError(t, cfg) /\ NoData(t) /\ HandleError(cfg)
     ELSE \E o \in {"data"} \cup (IF cfg.faults THEN {"OSError"} ELSE {}) :
            IF o = "OSError"
              THEN RaiseOSError(t, cfg) /\ NoData(t) /\ HandleError(cfg)
              ELSE \E p \in cfg.pkts :
                     /\ Len(p) >= MinPacketLen /\ ~Unchanged(p) => clock < cfg.maxClock
                     /\ ReadPacket(t, p)
                     /\ UNCHANGED handle_errors
  /\ UNCHANGED << device_fd, device_path, running, thread, event_queue,
                  current_buttons, last_buttons_l, last_buttons_h, initialized,
                  lock, timestamp, open_fds, clock, ret, produced,
                  evdevVars, otherVars >>

\* a close that remembers the device path
CloseDeviceKeepPath(t) ==
  /\ pc[t] = "close"
  /\ IF device_fd # None
       THEN open_fds' = OsClose(open_fds, device_fd)
       ELSE open_fds' = open_fds
  /\ device_fd' = None
  /\ initialized' = FALSE
  /\ Goto(t, "while")
  /\ UNCHANGED << device_path, running, thread, event_queue, current_buttons,
                  last_buttons_l, last_buttons_h, error_count, lock, data,
                  timestamp, clock, ret, produced, evdevVars, handle_errors, otherVars >>

\* _close_device
CloseDevice(t) ==
  /\ pc[t] = "close"
  /\ IF device_fd # None
       THEN open_fds' = OsClose(open_fds, device_fd)
       ELSE open_fds' = open_fds
  /\ device_fd' = None
  /\ initialized' = FALSE
  /\ device_path' = None
  /\ Goto(t, "while")
  /\ UNCHANGED << running, thread, event_queue, current_buttons,
                  last_buttons_l, last_buttons_h, error_count, lock, data,
                  timestamp, clock, ret, produced, evdevVars, handle_errors, otherVars >>

\* ---------------------------------------------------------- _process_packet
\* the early return when neither mask changed, else timestamp = time.time()
ProcessCompare(t, cfg) ==
  /\ pc[t] = "cmp"
  /\ IF Unchanged(data[t])
       THEN /\ Goto(t, "reset")
            /\ UNCHANGED << timestamp, clock >>
       ELSE /\ clock < cfg.maxClock
            /\ clock' = clock + 1
            /\ timestamp' = [timestamp EXCEPT ![t] = clock']
            /\ Goto(t, "lock")
  /\ UNCHANGED << monitorVars, lock, data, open_fds, ret, produced, evdevVars, handle_errors, otherVars >>

\* with self.lock
ProcessLock(t) ==
  /\ pc[t] = "lock"
  /\ lock = None
  /\ lock' = t
  /\ Goto(t, "crit")
  /\ UNCHANGED << monitorVars, data, timestamp, open_fds, clock, ret, produced, evdevVars, handle_errors, otherVars >>

\* the orders a for loop may visit the elements of the set S in
Orders(S) ==
  {s \in [1..Cardinality(S) -> S] : \A i, j \in DOMAIN s : i # j => s[i] # s[j]}

Event(button, pressed, ts) ==
  [button |-> button, pressed |-> pressed, timestamp |-> ts]

Events(order, pressed, ts) ==
  [i \in DOMAIN order |-> Event(order[i], pressed, ts)]

\* a bounded queue that refuses the newest event instead of evicting the oldest
PutEventDropNewest(q, e) ==
  IF Len(q) >= QueueMaxSize THEN q ELSE Append(q, e)

\* a queue without a capacity
PutEventUnbounded(q, e) == Append(q, e)

\* put_nowait(event); on queue.Full: get_nowait() then put_nowait(event)
PutEvent(q, e) ==
  IF Len(q) < QueueMaxSize THEN Append(q, e) ELSE Append(Tail(q), e)

RECURSIVE PutAll(_, _)
PutAll(q, evs) ==
  IF evs = << >> THEN q ELSE PutAll(PutEvent(q, Head(evs)), Tail(evs))

\* events for every button that is down, whether or not it was down before
PacketEventsLevel(old, new, ts) ==
  {Events(r, FALSE, ts) \o Events(p, TRUE, ts) :
     r \in Orders(old \ new), p \in Orders(new)}

\* the events of one packet: the released buttons, then the pressed ones
PacketEvents(old, new, ts) ==
  {Events(r, FALSE, ts) \o Events(p, TRUE, ts) :
     r \in Orders(old \ new), p \in Orders(new \ old)}

\* self.current_buttons = new_buttons binds the attribute to a new set: a
\* collection handed out before is no longer the monitor's object
Rebound(r) ==
  IF r.op = "get_button_state" /\ r.live THEN [r EXCEPT !.live = FALSE] ELSE r

\* the body of the with block, and the release of the lock
ProcessCritical(t) ==
  /\ pc[t] = "crit"
  /\ lock = t
  /\ \E evs \in PacketEvents(current_buttons, NewButtons(data[t]), timestamp[t]) :
       /\ event_queue' = PutAll(event_queue, evs)
       /\ produced' = produced \o evs
  /\ current_buttons' = NewButtons(data[t])
  /\ ret' = Rebound(ret)
  /\ lock' = None
  /\ Goto(t, "last")
  /\ UNCHANGED << device_fd, device_path, running, thread, last_buttons_l,
                  last_buttons_h, error_count, initialized, data, timestamp,
                  open_fds, clock, evdevVars, handle_errors, otherVars >>

\* self.last_buttons_l = buttons_l; self.last_buttons_h = buttons_h
ProcessSetLast(t) ==
  /\ pc[t] = "last"
  /\ last_buttons_l' = ButtonsL(data[t])
  /\ last_buttons_h' = ButtonsH(data[t])
  /\ Goto(t, "reset")
  /\ UNCHANGED << device_fd, device_path, running, thread, event_queue,
                  current_buttons, error_count, initialized, lock, data,
                  timestamp, open_fds, clock, ret, produced, evdevVars, handle_errors, otherVars >>

\* a loop that leaves the error counter alone after a processed packet
LoopResetErrorsNever(t) ==
  /\ pc[t] = "reset"
  /\ data' = [data EXCEPT ![t] = << >>]
  /\ timestamp' = [timestamp EXCEPT ![t] = 0]
  /\ Goto(t, "while")
  /\ UNCHANGED << monitorVars, lock, open_fds, clock, ret, produced, evdevVars, handle_errors, otherVars >>

\* self.error_count = 0 after _process_packet returned
LoopResetErrors(t) ==
  /\ pc[t] = "reset"
  /\ error_count' = 0
  /\ data' = [data EXCEPT ![t] = << >>]
  /\ timestamp' = [timestamp EXCEPT ![t] = 0]
  /\ Goto(t, "while")
  /\ UNCHANGED << device_fd, device_path, running, thread, event_queue,
                  current_buttons, last_buttons_l, last_buttons_h, initialized,
                  lock, open_fds, clock, ret, produced, evdevVars, handle_errors, otherVars >>

\* -------------------------------------------------------------------- start
\* the thread slots of cfg.slots no live thread occupies
FreeSlots(cfg) == {t \in cfg.slots : pc[t] \in {"none", "done"}}

\* if self.running: return True; else initialize_device()
\* a start that initialises the device whether or not the monitor is running
StartCallAlways ==
  /\ pc[Caller] = "idle"
  /\ Goto(Caller, "find")
  /\ UNCHANGED << monitorVars, lock, data, timestamp, open_fds, clock, ret,
                  produced, evdevVars, handle_errors, otherVars >>

StartCall ==
  /\ pc[Caller] = "idle"
  /\ IF running
       THEN /\ ret' = [op |-> "start", val |-> TRUE, msg |-> "Already running"]
            /\ UNCHANGED pc
       ELSE /\ Goto(Caller, "find")
            /\ ret' = ret
  /\ UNCHANGED << monitorVars, lock, data, timestamp, open_fds, clock, produced, evdevVars, handle_errors, otherVars >>

\* self.running = True; the thread is created and started; return True
StartThread(cfg) ==
  /\ pc[Caller] = "start_run"
  /\ FreeSlots(cfg) # {}
  /\ running' = TRUE
  /\ thread' = SetMin(FreeSlots(cfg))
  /\ pc' = [pc EXCEPT ![Caller] = "idle", ![thread'] = "while"]
  /\ ret' = [op |-> "start", val |-> TRUE, msg |-> "Monitor started"]
  /\ UNCHANGED << device_fd, device_path, event_queue, current_buttons,
                  last_buttons_l, last_buttons_h, error_count, initialized,
                  lock, data, timestamp, open_fds, clock, produced, evdevVars, handle_errors, otherVars >>

\* --------------------------------------------------------------------- stop
\* self.running = False
StopCall ==
  /\ pc[Caller] = "idle"
  /\ running' = FALSE
  /\ Goto(Caller, "stop_join")
  /\ UNCHANGED << ret, device_fd, device_path, thread, event_queue, current_buttons,
                  last_buttons_l, last_buttons_h, error_count, initialized,
                  lock, data, timestamp, open_fds, clock, produced, evdevVars, handle_errors, otherVars >>

\* self.thread.join(timeout=2.0) returns when the thread has ended or when
\* the timeout has passed; self.thread = None
StopJoin ==
  /\ pc[Caller] = "stop_join"
  /\ thread' = None
  /\ Goto(Caller, "stop_close")
  /\ UNCHANGED << device_fd, device_path, running, event_queue, current_buttons,
                  last_buttons_l, last_buttons_h, error_count, initialized,
                  lock, data, timestamp, open_fds, clock, ret, produced, evdevVars, handle_errors, otherVars >>

\* if self.device_fd is not None: os.close(...); self.device_fd = None
StopClose ==
  /\ pc[Caller] = "stop_close"
  /\ IF device_fd # None
       THEN /\ open_fds' = OsClose(open_fds, device_fd)
            /\ device_fd' = None
       ELSE UNCHANGED << open_fds, device_fd >>
  /\ Goto(Caller, "stop_fin")
  /\ UNCHANGED << device_path, running, thread, event_queue, current_buttons,
                  last_buttons_l, last_buttons_h, error_count, initialized,
                  lock, data, timestamp, clock, ret, produced, evdevVars, handle_errors, otherVars >>

\* self.initialized = False; stop returns
StopReturn ==
  /\ pc[Caller] = "stop_fin"
  /\ initialized' = FALSE
  /\ Goto(Caller, "idle")
  /\ ret' = [op |-> "stop", val |-> "None"]
  /\ UNCHANGED << device_fd, device_path, running, thread, event_queue,
                  current_buttons, last_buttons_l, last_buttons_h, error_count,
                  lock, data, timestamp, open_fds, clock, produced, evdevVars, handle_errors, otherVars >>

\* --------------------------------------------------------------- get_events
\* for _ in range(max_events): get_nowait(), until queue.Empty;
\* << the events collected, the queue left >>
RECURSIVE Drain(_, _, _)
Drain(q, n, acc) ==
  IF n <= 0 \/ q = << >> THEN << acc, q >>
  ELSE Drain(Tail(q), n - 1, Append(acc, Head(q)))

\* a drain that takes the newest events instead of the oldest
get_eventsNewestFirst(q, max_events) ==
  IF max_events <= 0 \/ q = << >> THEN << << >>, q >>
  ELSE IF Len(q) <= max_events THEN << q, << >> >>
  ELSE << SubSeq(q, Len(q) - max_events + 1, Len(q)),
          SubSeq(q, 1, Len(q) - max_events) >>

get_events(q, max_events) == Drain(q, max_events, << >>)

\* a drain that does not take the monitor's lock
GetEventsUnlocked(max_events) ==
  /\ pc[Caller] = "idle"
  /\ ret' = [op |-> "get_events", val |-> get_events(event_queue, max_events)[1],
             max_events |-> max_events]
  /\ event_queue' = get_events(event_queue, max_events)[2]
  /\ UNCHANGED << device_fd, device_path, running, thread, current_buttons,
                  last_buttons_l, last_buttons_h, error_count, initialized,
                  lock, pc, data, timestamp, open_fds, clock, produced, evdevVars, handle_errors, otherVars >>

GetEvents(max_events) ==
  /\ pc[Caller] = "idle"
  /\ lock = None
  /\ ret' = [op |-> "get_events", val |-> get_events(event_queue, max_events)[1],
             max_events |-> max_events]
  /\ event_queue' = get_events(event_queue, max_events)[2]
  /\ UNCHANGED << device_fd, device_path, running, thread, current_buttons,
                  last_buttons_l, last_buttons_h, error_count, initialized,
                  lock, pc, data, timestamp, open_fds, clock, produced, evdevVars, handle_errors, otherVars >>

\* ---------------------------------------------------------- get_button_state
\* list(self.current_buttons) is a new object: live tells whether the caller
\* was handed the very object the monitor keeps as current_buttons
\* a getter that hands out the monitor's own collection
get_button_stateLive == [val |-> current_buttons, live |-> TRUE]

get_button_state == [val |-> current_buttons, live |-> FALSE]

GetButtonState ==
  /\ pc[Caller] = "idle"
  /\ lock = None
  /\ ret' = [op |-> "get_button_state", val |-> get_button_state.val,
             live |-> get_button_state.live]
  /\ UNCHANGED << monitorVars, lock, pc, data, timestamp, open_fds, clock,
                  produced, evdevVars, handle_errors, otherVars >>

\* --------------------------------------------------------------- get_status
\* hex(n) for n >= 0: the hexadecimal digits of n, most significant first,
\* which Python writes after the prefix '0x'
RECURSIVE Hex(_)
Hex(n) == IF n < 16 THEN << n >> ELSE Hex(n \div 16) \o << n % 16 >>

\* the dictionary get_status builds while it holds the lock
get_status ==
  [running |-> running, initialized |-> initialized,
   device_path |-> device_path, error_count |-> error_count,
   queue_size |-> Len(event_queue), current_buttons |-> current_buttons,
   last_buttons_l |-> Hex(last_buttons_l),
   last_buttons_h |-> Hex(last_buttons_h)]

GetStatus ==
  /\ pc[Caller] = "idle"
  /\ lock = None
  /\ ret' = [op |-> "get_status", val |-> get_status]
  /\ UNCHANGED << monitorVars, lock, pc, data, timestamp, open_fds, clock,
                  produced, evdevVars, handle_errors, otherVars >>

\* the caller adds a name to, or removes it from, the collection it was given
ConsumerMutate(b) ==
  /\ pc[Caller] = "idle"
  /\ ret.op = "get_button_state"
  /\ ret' = [ret EXCEPT !.val = IF b \in ret.val THEN ret.val \ {b}
                                ELSE ret.val \cup {b}]
  /\ current_buttons' = IF ret.live THEN ret'.val ELSE current_buttons
  /\ UNCHANGED << device_fd, device_path, running, thread, event_queue,
                  last_buttons_l, last_buttons_h, error_count, initialized,
                  lock, pc, data, timestamp, open_fds, clock, produced, evdevVars, handle_errors, otherVars >>

\* ------------------------------------------------- Plugin.get_hidraw_button_state
\* a getter that adds the generic monitor's buttons to the answer
get_hidraw_button_stateUnion ==
  IF running \/ evdev_running
    THEN [op |-> "get_hidraw_button_state", success |-> TRUE,
          buttons |-> (IF running THEN get_button_state.val ELSE {})
                        \cup (IF evdev_running THEN evdev_buttons ELSE {}),
          error |-> ""]
    ELSE [op |-> "get_hidraw_button_state", success |-> FALSE, buttons |-> {},
          error |-> "Monitor not running"]

\* if self._hidraw_monitor and self._hidraw_monitor.running: the monitor's
\* get_button_state(); otherwise the "Monitor not running" answer
get_hidraw_button_state ==
  IF running
    THEN [op |-> "get_hidraw_button_state", success |-> TRUE,
          buttons |-> get_button_state.val, error |-> ""]
    ELSE [op |-> "get_hidraw_button_state", success |-> FALSE, buttons |-> {},
          error |-> "Monitor not running"]

PluginGetButtonState ==
  /\ pc[Caller] = "idle"
  /\ running => lock = None
  /\ ret' = get_hidraw_button_state
  /\ UNCHANGED << monitorVars, lock, pc, data, timestamp, open_fds, clock,
                  produced, evdevVars, handle_errors, otherVars >>

\* ------------------------------------------------- the generic-gamepad monitor
\* The specification's second monitor (its section 4.3): a state-only monitor
\* of external gamepads whose button set exists while it runs. The source has
\* no such monitor; these definitions follow the specification.
GenericButtons == {"X", "A"}

EvdevStart ==
  /\ ~evdev_running
  /\ evdev_running' = TRUE
  /\ evdev_buttons' = {}
  /\ UNCHANGED << monitorVars, lock, pc, data, timestamp, open_fds, clock, ret,
                  produced, handle_errors, otherVars >>

EvdevStop ==
  /\ evdev_running
  /\ evdev_running' = FALSE
  /\ evdev_buttons' = {}
  /\ UNCHANGED << monitorVars, lock, pc, data, timestamp, open_fds, clock, ret,
                  produced, handle_errors, otherVars >>

\* a key event of a tracked device: value 1 adds the button, value 0 removes it
EvdevKey(b, value) ==
  /\ evdev_running
  /\ evdev_buttons' = IF value = 1 THEN evdev_buttons \cup {b}
                                   ELSE evdev_buttons \ {b}
  /\ evdev_buttons' # evdev_buttons
  /\ UNCHANGED << monitorVars, lock, pc, data, timestamp, open_fds, clock, ret,
                  produced, evdev_running, handle_errors, otherVars >>

\* ----------------------------------------------------------- take_screenshot
\* everything of the button monitor and of the nodes it looks at
hidrawVars ==
  << monitorVars, lock, pc, data, timestamp, open_fds, clock, ret, produced,
     evdevVars, handle_errors, worldVars >>

\* the coroutines suspended inside take_screenshot
InProgress == {c \in Coros : shot_pc[c] # "idle"}

\* the call ends with result r; the finally clause clears the guard
ShotFinally(c, r) ==
  /\ shot_ret' = [shot_ret EXCEPT ![c] = r]
  /\ shot_pc' = [shot_pc EXCEPT ![c] = "idle"]
  /\ processing_lock' = FALSE
  /\ proc' = proc \ {c}

\* except Exception: the test pattern is returned
ShotExcept(c) == ShotFinally(c, "error")

\* a take_screenshot that tests the guard inside its try block
ShotCallClears(c) ==
  /\ shot_pc[c] = "idle"
  /\ IF processing_lock
       THEN /\ shot_ret' = [shot_ret EXCEPT ![c] = "raised"]
            /\ processing_lock' = FALSE
            /\ UNCHANGED << shot_pc, proc >>
       ELSE \/ /\ processing_lock' = TRUE
               /\ shot_pc' = [shot_pc EXCEPT ![c] = "exec"]
               /\ shot_ret' = [shot_ret EXCEPT ![c] = "none"]
               /\ proc' = proc
            \/ ShotExcept(c)
  /\ UNCHANGED << hidrawVars, settingVars, batchVars >>

\* take_screenshot up to its first await: with the guard set it raises
\* RuntimeError('Screenshot already in progress'); else it sets the guard and
\* either reaches `await asyncio.create_subprocess_exec` or fails before it
\* (os.makedirs) and returns the test pattern
ShotCall(c) ==
  /\ shot_pc[c] = "idle"
  /\ IF processing_lock
       THEN /\ shot_ret' = [shot_ret EXCEPT ![c] = "raised"]
            /\ UNCHANGED << processing_lock, shot_pc, proc >>
       ELSE \/ /\ processing_lock' = TRUE
               /\ shot_pc' = [shot_pc EXCEPT ![c] = "exec"]
               /\ shot_ret' = [shot_ret EXCEPT ![c] = "none"]
               /\ proc' = proc
            \/ ShotExcept(c)
  /\ UNCHANGED << hidrawVars, settingVars, batchVars >>

\* create_subprocess_exec returns the process, or raises
ShotExec(c) ==
  /\ shot_pc[c] = "exec"
  /\ \/ /\ proc' = proc \cup {c}
        /\ shot_pc' = [shot_pc EXCEPT ![c] = "communicate"]
        /\ UNCHANGED << processing_lock, shot_ret >>
     \/ ShotExcept(c)
  /\ UNCHANGED << hidrawVars, settingVars, batchVars >>

\* the pipeline has exited: the file is there and encoded ("image"), there
\* but not encoded ("encode_failed"), missing or empty ("missing"), or the
\* logging of the output raised
ShotCheckFile(c) ==
  \/ \E r \in {"image", "encode_failed", "missing"} : ShotFinally(c, r)
  \/ ShotExcept(c)

\* await asyncio.wait_for(proc.communicate(), timeout=5): the pipeline exits,
\* or TimeoutError and SIGINT is sent
ShotCommunicate(c) ==
  /\ shot_pc[c] = "communicate"
  /\ \/ ShotCheckFile(c)
     \/ /\ shot_pc' = [shot_pc EXCEPT ![c] = "sigint"]
        /\ UNCHANGED << processing_lock, shot_ret, proc >>
  /\ UNCHANGED << hidrawVars, settingVars, batchVars >>

\* await asyncio.wait_for(proc.communicate(), timeout=2): the pipeline exits,
\* or TimeoutError and the process is killed
ShotSigint(c) ==
  /\ shot_pc[c] = "sigint"
  /\ \/ ShotCheckFile(c)
     \/ /\ shot_pc' = [shot_pc EXCEPT ![c] = "kill"]
        /\ UNCHANGED << processing_lock, shot_ret, proc >>
  /\ UNCHANGED << hidrawVars, settingVars, batchVars >>

\* await proc.communicate() after proc.kill()
ShotKill(c) ==
  /\ shot_pc[c] = "kill"
  /\ ShotCheckFile(c)
  /\ UNCHANGED << hidrawVars, settingVars, batchVars >>

\* a cancellation that leaves the guard as it is
ShotCancelKeepsGuard(c) ==
  /\ shot_pc[c] # "idle"
  /\ shot_ret' = [shot_ret EXCEPT ![c] = "cancelled"]
  /\ shot_pc' = [shot_pc EXCEPT ![c] = "idle"]
  /\ proc' = proc \ {c}
  /\ UNCHANGED << processing_lock, hidrawVars, settingVars, batchVars >>

\* the task is cancelled at its await: CancelledError is no Exception, only
\* the finally clause runs
ShotCancel(c) ==
  /\ shot_pc[c] # "idle"
  /\ ShotFinally(c, "cancelled")
  /\ UNCHANGED << hidrawVars, settingVars, batchVars >>

\* --------------------------------------------------------------- set_setting
OcrProviders == {"rapidocr", "ocrspace", "googlecloud"}

\* ProviderManager.configure: with an ocr_provider the preference is that
\* provider, without one it is derived from use_free_providers
configure(use_free, google_api_key, ocr) ==
  /\ pm_google_api_key' = google_api_key
  /\ IF ocr # ""
       THEN /\ ocr_provider_preference' = ocr
            /\ pm_use_free_providers' = (ocr # "googlecloud")
       ELSE /\ pm_use_free_providers' = use_free
            /\ ocr_provider_preference' =
                 IF use_free THEN "rapidocr" ELSE "googlecloud"

\* the ProviderType get_ocr_provider(None) selects
get_ocr_provider ==
  IF ocr_provider_preference = "rapidocr" THEN "RAPIDOCR"
  ELSE IF ocr_provider_preference = "ocrspace" THEN "OCR_SPACE"
  ELSE "GOOGLE"

\* json.dump of the value stored under key
Json(key, value) ==
  IF key = "use_free_providers" THEN (IF value THEN "true" ELSE "false")
  ELSE value

\* Plugin.set_setting(key, value) followed by the save of the settings file
SetSetting(key, value) ==
  /\ IF key \in {"google_api_key", "google_vision_api_key"}
       THEN /\ google_vision_api_key' = value
            /\ configure(use_free_providers, value, "")
            /\ UNCHANGED << ocr_provider, use_free_providers,
                            rapidocr_confidence, pm_rapidocr_confidence >>
     ELSE IF key = "rapidocr_confidence"
       THEN /\ rapidocr_confidence' = value
            /\ pm_rapidocr_confidence' = value
            /\ UNCHANGED << ocr_provider, use_free_providers,
                            google_vision_api_key, ocr_provider_preference,
                            pm_use_free_providers, pm_google_api_key >>
     ELSE IF key = "use_free_providers"
       THEN /\ use_free_providers' = value
            /\ configure(value, google_vision_api_key, "")
            /\ UNCHANGED << ocr_provider, google_vision_api_key,
                            rapidocr_confidence, pm_rapidocr_confidence >>
     ELSE IF key = "ocr_provider"
       THEN /\ ocr_provider' = value
            /\ use_free_providers' = (value # "googlecloud")
            /\ configure(use_free_providers', google_vision_api_key, value)
            /\ UNCHANGED << google_vision_api_key, rapidocr_confidence,
                            pm_rapidocr_confidence >>
     ELSE UNCHANGED << ocr_provider, use_free_providers,
                       google_vision_api_key, rapidocr_confidence,
                       ocr_provider_preference, pm_use_free_providers,
                       pm_google_api_key, pm_rapidocr_confidence >>
  /\ saved' = [saved EXCEPT ![key] = Json(key, value)]
  /\ UNCHANGED << hidrawVars, screenshotVars, batchVars >>

\* ----------------------------------------------------------- translate_batch
\* the texts of a batch: two blank ones, two the service can translate
TextSet == {"", " ", "cat", "dog"}

\* not text or not text.strip()
Blank(text) == text \in {"", " "}

\* what the translation service answers
Translation(text) == IF text = "cat" THEN "chat" ELSE "chien"

\* results = [None] * len(texts): a position not yet assigned
Unset == "None"

\* translate_with_index(index, text): _translate_single answers the
\* translation ("ok"), hands the text back ("same": bad status, empty
\* answer) or raises NetworkError ("raise")
translate_with_index(index, text, o) ==
  IF Blank(text) THEN << index, text >>
  ELSE IF o = "ok" THEN << index, Translation(text) >>
  ELSE << index, text >>

\* the positions of results assigned so far
Collected == {i \in 1..Len(results) : results[i] # Unset}

\* Plugin.translate_text: region i with the i-th translation
translated_regions(text_regions, translated_texts) ==
  [i \in {j \in 1..Len(translated_texts) : j <= Len(text_regions)} |->
     [text |-> text_regions[i], translatedText |-> translated_texts[i]]]

\* translate_batch(txts): an empty list is returned at once, else one task
\* per text is submitted to the executor
BatchCall(txts) ==
  /\ batch_ret.op # "running"
  /\ texts' = txts
  /\ completed' = << >>
  /\ IF txts = << >>
       THEN /\ batch_ret' = [op |-> "translate_batch", val |-> txts,
                              regions |-> translated_regions(txts, txts)]
            /\ results' = << >>
            /\ futures' = << >>
       ELSE /\ batch_ret' = [op |-> "running"]
            /\ results' = [i \in 1..Len(txts) |-> Unset]
            /\ futures' = [i \in 1..Len(txts) |->
                             [done |-> FALSE, outcome |-> "none",
                              value |-> << i, Unset >>]]
  /\ UNCHANGED << hidrawVars, screenshotVars, settingVars >>

\* the worker of text i finishes, in any order among the workers
WorkerDone(i, o) ==
  /\ batch_ret.op = "running"
  /\ i \in 1..Len(futures)
  /\ ~futures[i].done
  /\ futures' = [futures EXCEPT ![i] =
                   [done |-> TRUE, outcome |-> o,
                    value |-> translate_with_index(i, texts[i], o)]]
  /\ completed' = Append(completed, i)
  /\ UNCHANGED << texts, results, batch_ret, hidrawVars, screenshotVars,
                  settingVars >>

\* a loop that stores the results in the order the workers finish
CollectAppend ==
  /\ batch_ret.op = "running"
  /\ Cardinality(Collected) < Len(completed)
  /\ LET n == Cardinality(Collected) + 1
         f == futures[completed[n]]
     IN  results' = [results EXCEPT ![n] = f.value[2]]
  /\ UNCHANGED << texts, futures, completed, batch_ret, hidrawVars,
                  screenshotVars, settingVars >>

\* for future in as_completed(futures): index, translated = future.result();
\* results[index] = translated
Collect ==
  /\ batch_ret.op = "running"
  /\ Cardinality(Collected) < Len(completed)
  /\ LET n == Cardinality(Collected) + 1
         f == futures[completed[n]]
     IN  results' = [results EXCEPT ![f.value[1]] = f.value[2]]
  /\ UNCHANGED << texts, futures, completed, batch_ret, hidrawVars,
                  screenshotVars, settingVars >>

\* every future was collected: translate_batch returns results, and
\* translate_text pairs them with the regions
BatchReturn ==
  /\ batch_ret.op = "running"
  /\ Cardinality(Collected) = Len(texts)
  /\ batch_ret' = [op |-> "translate_batch", val |-> results,
                   regions |-> translated_regions(texts, results)]
  /\ UNCHANGED << texts, futures, completed, results, hidrawVars,
                  screenshotVars, settingVars >>

\* the hidraw nodes change: the controller is unplugged, re-enumerated
NodesChange(cfg) ==
  /\ ~stable
  /\ hidraw' \in cfg.envs \ {hidraw}
  /\ UNCHANGED << monitorVars, lock, pc, data, timestamp, open_fds, clock, ret,
                  produced, evdevVars, handle_errors, stable, pluginVars >>

\* from here on the controller stays where it is, discoverable and openable
NodesSettle ==
  /\ ~stable
  /\ find_device(hidraw) # None
  /\ find_device(hidraw) \notin hidraw.noopen
  /\ stable' = TRUE
  /\ UNCHANGED << monitorVars, lock, pc, data, timestamp, open_fds, clock, ret,
                  produced, evdevVars, handle_errors, hidraw, pluginVars >>

\* a call of find_device with the nodes as they are
FindDeviceCall ==
  /\ pc[Caller] = "idle"
  /\ ret' = [op |-> "find_device", val |-> find_device(hidraw),
             open |-> FindDevice(hidraw).open]
  /\ UNCHANGED << monitorVars, lock, pc, data, timestamp, open_fds, clock,
                  produced, evdevVars, handle_errors, otherVars >>

\* ------------------------------------------------------------ specifications
LoopBody(t, cfg) ==
  \/ LoopWhile(t)
  \/ LoopCheck(t)
  \/ InitializeFind(t, cfg)
  \/ InitializeOpen(t, cfg)
  \/ InitializeDone(t)
  \/ LoopSelect(t, cfg)
  \/ LoopRead(t, cfg)
  \/ ProcessCompare(t, cfg)
  \/ ProcessLock(t)
  \/ ProcessCritical(t)
  \/ ProcessSetLast(t)
  \/ LoopResetErrors(t)

Start(cfg) ==
  \/ StartCall
  \/ InitializeFind(Caller, cfg)
  \/ InitializeOpen(Caller, cfg)
  \/ InitializeDone(Caller)
  \/ StartThread(cfg)

Stop ==
  \/ StopCall
  \/ StopJoin
  \/ StopClose
  \/ StopReturn

\* the monitor with its caller: start and stop at any time, a device that may
\* vanish, fail to open and fail to be read
Next ==
  \/ \E t \in Tids : LoopBody(t, CfgFull) \/ CloseDevice(t)
  \/ Start(CfgFull)
  \/ Stop

Spec == Init /\ [][Next]_vars

\* start and stop at any time with several polling threads, on a device that
\* never fails
NextThreads ==
  \/ \E t \in Tids : LoopBody(t, CfgThreads)
  \/ Start(CfgThreads)
  \/ Stop

SpecThreads == Init /\ [][NextThreads]_vars

\* one polling thread on a device that never fails, and a consumer
NextQueue ==
  \/ \E t \in Tids : LoopBody(t, CfgQueue)
  \/ Start(CfgQueue)
  \/ \E n \in 0..MaxDrain : GetEvents(n)
  \/ GetButtonState
  \/ \E b \in {"A", "X"} : ConsumerMutate(b)

SpecQueue == Init /\ [][NextQueue]_vars

\* one polling thread on a device that never fails, a consumer that drains the
\* queue and asks for the status
NextStatus ==
  \/ \E t \in Tids : LoopBody(t, CfgQueue)
  \/ Start(CfgQueue)
  \/ \E n \in 0..MaxDrain : GetEvents(n)
  \/ GetStatus

SpecStatus == Init /\ [][NextStatus]_vars

\* one polling thread on a device that never fails, and no consumer
NextOverflow ==
  \/ \E t \in Tids : LoopBody(t, CfgOverflow)
  \/ Start(CfgOverflow)

SpecOverflow == Init /\ [][NextOverflow]_vars

\* the loop on a device that delivers no valid report
LoopIdle(t, cfg) ==
  \/ LoopWhile(t)
  \/ LoopCheck(t)
  \/ InitializeFind(t, cfg)
  \/ InitializeOpen(t, cfg)
  \/ InitializeDone(t)
  \/ LoopSelect(t, cfg)
  \/ LoopRead(t, cfg)

\* start and stop at any time around threads that always get to run: every
\* wait of the loop is bounded (select 0.1 s, sleep 0.1 s or 2 s)
NextStop ==
  \/ \E t \in Tids : LoopIdle(t, CfgStop)
  \/ Start(CfgStop)
  \/ Stop

SpecStop ==
  Init /\ [][NextStop]_vars /\ \A t \in Tids : WF_vars(LoopIdle(t, CfgStop))

\* the plugin's state getter over the monitor and the generic monitor
\* find_device alone, over every arrangement of the nodes
InitFind ==
  /\ InitMonitor
  /\ hidraw \in FindEnvs
  /\ stable = FALSE
  /\ InitScreenshot
  /\ InitSettings
  /\ InitBatch

NextFind == FindDeviceCall

SpecFind == InitFind /\ [][NextFind]_vars

\* a started monitor whose thread is scheduled again and again, on a device
\* that fails and moves until its nodes settle
NextReconnect ==
  \/ \E t \in Tids : LoopIdle(t, CfgReconnect) \/ CloseDevice(t)
  \/ Start(CfgReconnect)
  \/ NodesChange(CfgReconnect)
  \/ NodesSettle

SpecReconnect ==
  /\ Init
  /\ [][NextReconnect]_vars
  /\ \A t \in Tids : WF_vars(LoopIdle(t, CfgReconnect) \/ CloseDevice(t))

\* the coroutines of the event loop calling take_screenshot, interleaved at
\* their awaits
NextScreenshot ==
  \E c \in Coros :
    \/ ShotCall(c)
    \/ ShotExec(c)
    \/ ShotCommunicate(c)
    \/ ShotSigint(c)
    \/ ShotKill(c)
    \/ ShotCancel(c)

SpecScreenshot == Init /\ [][NextScreenshot]_vars

\* any sequence of set_setting calls; use_free_providers is only set to the
\* value that agrees with the provider the plugin holds
NextSettings ==
  \/ \E v \in OcrProviders : SetSetting("ocr_provider", v)
  \/ \E v \in {"", "key"} : SetSetting("google_api_key", v)
  \/ \E v \in {"", "key"} : SetSetting("google_vision_api_key", v)
  \/ SetSetting("use_free_providers", ocr_provider # "googlecloud")
  \/ \E v \in {"0.5", "0.8"} : SetSetting("rapidocr_confidence", v)
  \/ \E v \in {"en", "fr"} : SetSetting("target_language", v)

SpecSettings == Init /\ [][NextSettings]_vars

\* the lists of at most n texts
RECURSIVE TextLists(_)
TextLists(n) ==
  IF n = 0 THEN {<< >>}
  ELSE TextLists(n - 1) \cup
       {Append(l, t) : l \in {m \in TextLists(n - 1) : Len(m) = n - 1},
                       t \in TextSet}

\* translate_batch calls whose workers finish in any order and with any
\* outcome
NextBatch ==
  \/ \E txts \in TextLists(MaxTexts) : BatchCall(txts)
  \/ \E i \in 1..MaxTexts, o \in {"ok", "same", "raise"} : WorkerDone(i, o)
  \/ Collect
  \/ BatchReturn

SpecBatch == Init /\ [][NextBatch]_vars

NextCoordinator ==
  \/ \E t \in Tids : LoopBody(t, CfgCoordinator)
  \/ Start(CfgCoordinator)
  \/ Stop
  \/ PluginGetButtonState
  \/ EvdevStart
  \/ EvdevStop
  \/ \E b \in GenericButtons, value \in {0, 1} : EvdevKey(b, value)

SpecCoordinator == Init /\ [][NextCoordinator]_vars

\* --------------------------------------------------------------- properties
\* the last n elements of s (all of s when it is shorter)
LastN(s, n) ==
  IF Len(s) <= n THEN s ELSE SubSeq(s, Len(s) - n + 1, Len(s))

\* the events the step appended to produced
Emitted == SubSeq(produced', Len(produced) + 1, Len(produced'))

\* the transitions between two button sets, as (button, pressed) pairs
Transitions(old, new) ==
  {<< b, FALSE >> : b \in old \ new} \cup {<< b, TRUE >> : b \in new \ old}

\* thread t's call of _process_packet ends its diffing in this step: by the
\* early return, or by the critical section
DiffStep(t) ==
  \/ pc[t] = "cmp" /\ pc'[t] = "reset"
  \/ pc[t] = "crit" /\ pc'[t] = "last"

\* C1: every processed packet enqueues exactly one 'pressed' event per button
\* that is in the decoded set but not in the prior button set, one 'released'
\* event per button that is in the prior set but not in the decoded set, and
\* nothing else.
C1_EventPerTransition ==
  [][\A t \in Tids :
       DiffStep(t) =>
         /\ Len(Emitted) = Cardinality(Transitions(current_buttons, NewButtons(data[t])))
         /\ {<< Emitted[i].button, Emitted[i].pressed >> : i \in DOMAIN Emitted}
              = Transitions(current_buttons, NewButtons(data[t]))
         /\ LastN(event_queue', Len(Emitted)) = Emitted]_vars


\* C2: the event queue never holds more than QueueMaxSize events and, with
\* nothing drained, always holds exactly the newest events produced, in the
\* order they were produced: an overflow evicts the oldest and keeps the newest
C2_QueueHoldsNewest ==
  /\ Len(event_queue) <= QueueMaxSize
  /\ event_queue = LastN(produced, QueueMaxSize)

C2_Witness ==
  /\ Len(produced) = QueueMaxSize + 5
  /\ Len(event_queue) = QueueMaxSize
  /\ event_queue[1] = produced[6]
  /\ event_queue[QueueMaxSize] = produced[QueueMaxSize + 5]

Min(a, b) == IF a <= b THEN a ELSE b

GetEventsStep == ret' # ret /\ ret'.op = "get_events"

\* C3: get_events(max_events), for max_events >= 0, returns the
\* min(max_events, queue length) oldest events in the order they were
\* enqueued, removes exactly those and leaves the rest in order
C3_DrainOldestFirst ==
  [][GetEventsStep =>
       LET k == Min(ret'.max_events, Len(event_queue)) IN
         /\ ret'.max_events >= 0
         /\ ret'.val = SubSeq(event_queue, 1, k)
         /\ event_queue' = SubSeq(event_queue, k + 1, Len(event_queue))]_vars

C3_Witness ==
  /\ ret.op = "get_events"
  /\ ret.max_events = 2
  /\ Len(ret.val) = 2
  /\ Len(event_queue) >= 1
  /\ ret.val[1].timestamp <= ret.val[2].timestamp
  /\ ret.val[2].timestamp <= event_queue[1].timestamp

StartFailedStep ==
  /\ pc[Caller] # "idle"
  /\ pc'[Caller] = "idle"
  /\ ret'.op = "start"
  /\ ret'.val = FALSE

\* C4: start() returns false only when discovery found no device or opening
\* the device failed, and at that return the monitor is stopped: running is
\* false, no polling thread was created, no descriptor is open, and start()
\* can be called again
C4_FailedStartLeavesStopped ==
  [][StartFailedStep =>
       /\ \/ pc[Caller] = "find" /\ device_path' = None
          \/ pc[Caller] = "open"
       /\ ~running'
       /\ thread' = None
       /\ \A t \in Tids : pc'[t] = pc[t]
       /\ device_fd' = None
       /\ open_fds' = {}
       /\ pc'[Caller] = "idle"]_vars

StartOnRunningStep ==
  /\ running
  /\ pc[Caller] = "idle"
  /\ \/ pc'[Caller] = "find"
     \/ ret' # ret /\ ret'.op = "start"

\* C5: start() on a running monitor returns true and changes nothing: no
\* thread is created, the device is neither searched for nor opened again, and
\* the button state, the queue and the error counter stay as they were
C5_StartIdempotent ==
  [][StartOnRunningStep =>
       /\ ret'.val = TRUE
       /\ pc' = pc
       /\ UNCHANGED << monitorVars, lock, open_fds, produced >>]_vars

C5_Witness ==
  /\ running
  /\ pc[Caller] = "idle"
  /\ ret.op = "start"
  /\ ret.msg = "Already running"
  /\ thread # None
  /\ device_fd \in open_fds

StopReturned == pc[Caller] = "idle" /\ ret.op = "stop"

\* C6: after stop() has returned, in whatever state it was called, the status
\* reports running = false and initialized = false
C6_StopIdempotent == StopReturned => ~running /\ ~initialized

\* C7: when stop() has returned, device_fd is None and every descriptor the
\* monitor opened is closed, whatever the polling thread was doing
C7_StopReleasesDevice == StopReturned => device_fd = None /\ open_fds = {}

OSErrorStep(t) ==
  /\ pc[t] \in {"select", "read"}
  /\ device_fd # None
  /\ error_count' = error_count + 1

CloseStep(t) == pc[t] = "close" /\ pc'[t] # "close"

DiscoveryStep(a) ==
  /\ pc[a] = "find"
  /\ device_path = None
  /\ \E env \in CfgFull.envs : device_path' = find_device(env)

OpenStep(a) ==
  /\ pc[a] = "open"
  /\ device_path # None
  /\ device_fd' \notin open_fds
  /\ device_fd' \in open_fds'

\* C8: read errors add up until a valid packet is read; the read error that
\* brings the count to max_errors sends the loop to _close_device, which closes
\* the descriptor, clears initialized and forgets the path before the loop
\* sleeps; from there a path only comes back through find_device and a
\* descriptor only through a new open
C8_ReconnectFromDiscovery ==
  [][/\ \A t \in Tids :
          /\ OSErrorStep(t) /\ error_count' >= max_errors => pc'[t] = "close"
          /\ CloseStep(t) =>
               /\ device_fd' = None
               /\ device_fd \notin open_fds'
               /\ ~initialized'
               /\ device_path' = None
               /\ pc'[t] = "while"
     /\ error_count' < error_count => \E t \in Tids : pc[t] = "reset"
     /\ device_path = None /\ device_path' # None =>
          \E a \in Agents : DiscoveryStep(a)
     /\ device_fd' # None /\ device_fd' # device_fd =>
          \E a \in Agents : OpenStep(a)]_vars

C8_Witness ==
  /\ running
  /\ error_count >= max_errors
  /\ pc[1] = "select"
  /\ initialized
  /\ device_path # None
  /\ device_fd \in open_fds

HoldsSnapshot(r) == r.op = "get_button_state"

\* C9: get_button_state returns the button set of the instant of the call;
\* packets processed afterwards never change the returned collection, and
\* changing the returned collection never changes the monitor's button set
C9_SnapshotCopy ==
  [][/\ HoldsSnapshot(ret') /\ (~HoldsSnapshot(ret) \/ ret'.val # ret.val) =>
          current_buttons' = current_buttons
     /\ HoldsSnapshot(ret') /\ ~HoldsSnapshot(ret) =>
          ret'.val = current_buttons
     /\ HoldsSnapshot(ret) /\ current_buttons' # current_buttons =>
          ret' = ret]_vars

C9_Witness ==
  /\ HoldsSnapshot(ret)
  /\ ret.val = {"A"}
  /\ current_buttons = {"R2"}
  /\ Len(produced) >= 3

PluginStateStep == ret' # ret /\ ret'.op = "get_hidraw_button_state"

NotRunningAnswer(r) ==
  ~r.success /\ r.buttons = {} /\ r.error = "Monitor not running"

SteadyStep(t) ==
  \/ pc[t] = "cmp" /\ pc'[t] # "cmp" /\ Unchanged(data[t])
  \/ pc[t] = "crit" /\ pc'[t] = "last" /\ NewButtons(data[t]) = current_buttons

C12_StateIsDecode ==
  [][\A t \in Tids : DiffStep(t) => current_buttons' = NewButtons(data[t])]_vars

\* C13: every descriptor the monitor has opened and not closed is its current
\* device_fd, so at most one descriptor is open at any time
C13_AtMostOneDescriptor == open_fds \subseteq {device_fd}

\* the threads that are inside _monitor_loop
Alive == {t \in Tids : pc[t] \notin {"none", "done"}}

\* C14: at most one polling thread of the monitor is alive at any time
C14_AtMostOneThread == Cardinality(Alive) <= 1

\* the button set that results from applying the events evs, in order, to s
RECURSIVE ApplyEvents(_, _)
ApplyEvents(evs, s) ==
  IF evs = << >> THEN s
  ELSE ApplyEvents(Tail(evs), IF Head(evs).pressed THEN s \cup {Head(evs).button}
                                                   ELSE s \ {Head(evs).button})

\* a step that writes the button state or puts to or gets from the queue
WriteStep ==
  \/ current_buttons' # current_buttons
  \/ event_queue' # event_queue
  \/ produced' # produced

\* thread t leaves its critical section
CriticalStep(t) ==
  /\ lock = t
  /\ pc[t] = "crit"
  /\ pc'[t] = "last"
  /\ lock' = None

\* the caller gets from the queue in a critical section of its own
ReaderStep ==
  /\ pc[Caller] = "idle"
  /\ lock = None
  /\ lock' = None
  /\ current_buttons' = current_buttons
  /\ produced' = produced

\* C15: the button state is written and the queue is put to or got from only
\* under the lock, the events of a packet are enqueued in the critical section
\* that replaces the button state, and whenever the lock is free the button
\* state is what applying every event ever enqueued, in order, to the empty
\* set gives
C15_LockDiscipline ==
  [][/\ WriteStep => ReaderStep \/ \E t \in Tids : CriticalStep(t)
     /\ \A t \in Tids : CriticalStep(t) =>
          /\ current_buttons' = NewButtons(data[t])
          /\ current_buttons' = ApplyEvents(Emitted, current_buttons)
     /\ lock' = None => current_buttons' = ApplyEvents(produced', {})]_vars

C15_Witness ==
  /\ lock = None
  /\ Len(produced) = 3
  /\ Len(event_queue) = 1
  /\ current_buttons = {"R2"}
  /\ ret.op = "get_events"

\* C16: after stop() has returned the button state is the empty set and the
\* event queue is empty
C16_ClearedOnStop == StopReturned => current_buttons = {} /\ event_queue = << >>

\* thread t has read a packet of at least MinPacketLen bytes and processed it
ValidReadDone(t) == pc[t] = "reset" /\ pc'[t] = "while"

\* thread t has read a packet shorter than MinPacketLen bytes
ShortReadDone(t) ==
  /\ pc[t] = "read"
  /\ pc'[t] = "while"
  /\ data'[t] # << >>

\* C17 as stated: after any read that completes without an I/O error the
\* error counter is zero
C17_ZeroAfterRead ==
  [][\A t \in Tids : ValidReadDone(t) \/ ShortReadDone(t) =>
       error_count' = 0]_vars

\* C17 amended: after a read of at least 16 bytes and its processing the error
\* counter is zero, and a read of fewer bytes leaves the counter as it was
C17_ZeroAfterValidRead ==
  [][\A t \in Tids :
       /\ ValidReadDone(t) => Len(data[t]) >= MinPacketLen /\ error_count' = 0
       /\ ShortReadDone(t) =>
            Len(data'[t]) < MinPacketLen /\ error_count' = error_count]_vars

C17_Witness ==
  /\ pc[1] = "while"
  /\ data[1] = PktShort
  /\ error_count = 3
  /\ initialized
  /\ running

\* C18: the queue never holds more than QueueMaxSize events, and a thread in
\* its critical section can always finish it: with the queue full it evicts
\* one event and inserts the new one in that same critical section
C18_BoundedNonBlocking ==
  /\ Len(event_queue) <= QueueMaxSize
  /\ \A t \in Tids : pc[t] = "crit" /\ lock = t => ENABLED ProcessCritical(t)

C18_Witness ==
  /\ Len(event_queue) = QueueMaxSize
  /\ Len(produced) = QueueMaxSize + 2
  /\ pc[1] = "last"
  /\ lock = None
  /\ event_queue[QueueMaxSize] = produced[QueueMaxSize + 2]

\* C19: a packet shorter than 16 bytes is dropped: no event is enqueued, the
\* button state and the last decoded masks stay as they were, the error
\* counter is not incremented and the device stays open
C19_ShortPacketDiscarded ==
  [][\A t \in Tids : ShortReadDone(t) =>
       /\ Len(data'[t]) < MinPacketLen
       /\ UNCHANGED << event_queue, produced, current_buttons, last_buttons_l,
                       last_buttons_h, error_count, device_fd, device_path,
                       initialized, open_fds >>]_vars

C19_Witness ==
  /\ pc[1] = "while"
  /\ data[1] = PktShort
  /\ ButtonsL(PktShort \o << 0 >>) = 128
  /\ current_buttons = {}
  /\ last_buttons_l = 0
  /\ produced = << >>
  /\ error_count = 0
  /\ device_fd \in open_fds

\* thread t meets a failure: an exception in the loop body, or an
\* initialize_device that returns False
FailureStep(t) ==
  \/ /\ pc[t] \in {"select", "read"}
     /\ pc'[t] # pc[t]
     /\ error_count' = error_count + 1
  \/ pc[t] \in {"find", "open"} /\ pc'[t] \notin {"find", "open", "inited"}

\* C20: a failure in the loop is followed by another iteration, and a thread
\* leaves the loop only at a loop head that found the running flag cleared
C20_NoFailureTerminates ==
  [][\A t \in Tids :
       /\ FailureStep(t) => pc'[t] \in {"while", "close"}
       /\ CloseStep(t) => pc'[t] = "while"
       /\ pc[t] # "done" /\ pc'[t] = "done" => pc[t] = "while" /\ ~running]_vars

C20_Witness ==
  /\ running
  /\ pc[1] = "check"
  /\ ~initialized
  /\ device_path = None
  /\ error_count >= max_errors

\* C21: a polling thread that is alive when the running flag is clear
\* eventually leaves its loop, whatever is called afterwards
C21_ThreadTerminates ==
  \A t \in Tids : (t \in Alive /\ ~running) ~> (t \notin Alive)

\* agent a's initialize_device returns True, False
InitializeTrueStep(a) == pc[a] = "inited" /\ pc'[a] # "inited"

InitializeFalseStep(a) ==
  /\ pc[a] \in {"find", "open"}
  /\ pc'[a] \notin {"find", "open", "inited"}

\* C22: once the device is open, initialize_device returns True with
\* initialized set and the descriptor kept, whatever the feature reports did;
\* it returns False only after a discovery or open failure, and then no
\* descriptor is left open
C22_ReportsNonFatal ==
  [][\A a \in Agents :
       /\ InitializeTrueStep(a) =>
            /\ initialized'
            /\ device_fd' = device_fd
            /\ open_fds' = open_fds
            /\ pc'[a] = IF a = Caller THEN "start_run" ELSE "select"
       /\ InitializeFalseStep(a) =>
            /\ \/ pc[a] = "find" /\ device_path' = None
               \/ pc[a] = "open"
            /\ device_fd' = None
            /\ open_fds' = {}]_vars

\* the candidates of the current nodes that deliver data to a probe
Yielding ==
  {i \in Candidates(hidraw) :
     i \notin hidraw.noopen /\ i \in hidraw.data /\ i \notin hidraw.readerr}

\* C23: discovery returns the lowest candidate marked interface 1.2, else the
\* lowest candidate that yields data, else the highest candidate; it returns
\* no path exactly when there is no candidate; no probing descriptor is open
\* when it returns
C23_DiscoveryOrder ==
  ret.op = "find_device" =>
    LET c == Candidates(hidraw) IN
    /\ ret.val = IF c = {} THEN None
                 ELSE IF c \cap hidraw.link12 # {} THEN SetMin(c \cap hidraw.link12)
                 ELSE IF Yielding # {} THEN SetMin(Yielding)
                 ELSE SetMax(c)
    /\ ret.val = None <=> c = {}
    /\ ret.open = {}

\* three candidates, none marked 1.2 though another node is, the middle one
\* found by its data after the first was probed and closed
C23_Witness ==
  /\ ret.op = "find_device"
  /\ Cardinality(Candidates(hidraw)) >= 2
  /\ hidraw.link12 # {}
  /\ Candidates(hidraw) \cap hidraw.link12 = {}
  /\ ret.val # None
  /\ ret.val # SetMin(Candidates(hidraw))
  /\ ret.val \in Yielding

\* the loop closes the handle it holds because error_count reached max_errors
ForcedCloseStep ==
  \E t \in Tids : pc[t] = "close" /\ pc'[t] # "close" /\ device_fd # None

\* C25: when the loop force-closes a handle, at least max_errors I/O errors
\* have occurred on that handle since it was opened
C25_ErrorsPerHandle ==
  [][ForcedCloseStep => handle_errors >= max_errors]_vars

\* C24: once the controller stays present, discoverable and openable, a
\* running monitor eventually holds an initialized device with an open handle
C24_EventuallyInitialized ==
  (stable /\ running) ~>
    (initialized /\ device_fd # None /\ device_fd \in open_fds)

\* the number a sequence of hexadecimal digits writes
RECURSIVE Unhex(_)
Unhex(d) ==
  IF d = << >> THEN 0 ELSE 16 * Unhex(SubSeq(d, 1, Len(d) - 1)) + d[Len(d)]

\* get_status returns to the caller
StatusStep == pc[Caller] = "idle" /\ ret'.op = "get_status" /\ ret' # ret

\* C26: in every status snapshot current_buttons is the decoding of the
\* snapshot's last_buttons_l and last_buttons_h, and queue_size is the number
\* of events in the queue at the instant current_buttons was read
C26_StatusConsistent ==
  [][StatusStep =>
       /\ ret'.val.current_buttons =
            DecodeMasks(Unhex(ret'.val.last_buttons_l),
                        Unhex(ret'.val.last_buttons_h))
       /\ ret'.val.queue_size = Len(event_queue)]_vars

\* coroutine c calls take_screenshot
ShotCallStep(c) ==
  /\ shot_pc[c] = "idle"
  /\ shot_pc'[c] # "idle" \/ shot_ret'[c] # shot_ret[c]

\* C27: at most one take_screenshot is in progress; a call made while another
\* is in progress raises, starts no capture and leaves the guard set
C27_OneScreenshot ==
  [][/\ Cardinality(InProgress') <= 1
     /\ \A c \in Coros :
          ShotCallStep(c) /\ InProgress # {} =>
            /\ shot_ret'[c] = "raised"
            /\ shot_pc'[c] = "idle"
            /\ proc' = proc
            /\ processing_lock /\ processing_lock'
            /\ InProgress' = InProgress]_vars

C27_Witness ==
  \E c, d \in Coros :
    /\ shot_ret[c] = "raised"
    /\ shot_pc[d] = "communicate"
    /\ d \in proc
    /\ processing_lock

\* C28: every exit of the call that set the guard clears it: when no
\* take_screenshot is in progress the guard is clear and a call is not rejected
C28_GuardReleased ==
  [][/\ InProgress' = {} => ~processing_lock'
     /\ \A c \in Coros :
          ShotCallStep(c) /\ InProgress = {} => shot_ret'[c] # "raised"
     /\ \A c \in Coros :
          c \in InProgress /\ c \notin InProgress' => ~processing_lock']_vars

\* one call was cancelled, another returned the test pattern, and the
\* guard is clear
C28_Witness ==
  \E c, d \in Coros :
    /\ shot_ret[c] = "cancelled"
    /\ shot_ret[d] \in {"missing", "error"}
    /\ InProgress = {}
    /\ ~processing_lock

\* the ProviderType of a provider name
TypeOf(name) ==
  IF name = "rapidocr" THEN "RAPIDOCR"
  ELSE IF name = "ocrspace" THEN "OCR_SPACE"
  ELSE "GOOGLE"

\* C29: after any sequence of set_setting calls the OCR provider the
\* ProviderManager selects is the plugin's most recent ocr_provider setting
C29_ProviderFollowsSetting ==
  /\ ocr_provider_preference = ocr_provider
  /\ get_ocr_provider = TypeOf(ocr_provider)

\* what position i of the returned list has to hold
Expected(i) ==
  IF Blank(texts[i]) \/ futures[i].outcome # "ok" THEN texts[i]
  ELSE Translation(texts[i])

\* C30: translate_batch returns a list as long as its input whose position i
\* holds the translation of text i, or text i when it is blank or its
\* translation failed, whatever the order in which the workers finished
C30_BatchByIndex ==
  batch_ret.op = "translate_batch" =>
    /\ Len(batch_ret.val) = Len(texts)
    /\ \A i \in 1..Len(texts) :
         /\ batch_ret.val[i] = Expected(i)
         /\ batch_ret.val[i] # Unset
         /\ batch_ret.regions[i] =
              [text |-> texts[i], translatedText |-> Expected(i)]

\* two different texts, the second worker finished first and failed, the first
\* text was translated
C30_Witness ==
  /\ batch_ret.op = "translate_batch"
  /\ Len(texts) >= 2
  /\ completed[1] = 2
  /\ texts[1] = "cat" /\ futures[1].outcome = "ok"
  /\ texts[2] = "dog" /\ futures[2].outcome = "raise"
  /\ batch_ret.val[1] = "chat" /\ batch_ret.val[2] = "dog"

====
